---- MODULE Spec2Model ----
(***************************************************************************)
(* Model of mars.oscar.backends.router.Router: the routing table           *)
(* (_curr_external_addresses, _local_mapping, _mapping, _comm_config), the *)
(* thread-local client cache (_cache_local) and the client acquisition     *)
(* coroutines get_client / get_client_via_type.                            *)
(*                                                                         *)
(* Spec        : one Router serving the cached get_client and             *)
(*               get_client_via_type calls of one thread for a remote     *)
(*               address, with routing mutations from two threads.        *)
(* SpecThreads : the same with calls from two threads.                    *)
(* SpecResolve : get_internal_address and uncached get_client on every    *)
(*               constructed routing table.                               *)
(* SpecTable   : two Router objects replaced, merged and unmerged, each   *)
(*               the argument of the other (no clients).                  *)
(***************************************************************************)
EXTENDS Integers, Sequences, FiniteSets, TLC

\* ---------------------------------------------------------------- bounds
MaxCalls == 2
MaxClients == 2
MaxExt == 3

\* ------------------------------------------------------------- universe
\* Python None (an absent address, tag or client type).
None == "None"

\* External addresses used by callers and as own addresses.
ExtAddrs == {"A", "B"}
\* Loopback targets a Router can be constructed with.
LocalAddrs == {"L", None}
\* Targets of overlay mappings.
MapTargets == {"C", "D"}

Contexts == {"X", "Y"}
Tags == {None}
ClientTypes == {"SocketClient", "DummyClient"}

\* Outcome of a failed call.
Errors == {"KeyError", "TypeError", "ValueError", "ConnectError"}

\* -------------------------------------------------------------- helpers
Range(s) == {s[i] : i \in 1..Len(s)}

\* A dict is a function from its keys; the empty dict is always written
\* EmptyDict, so that equal dicts are equal values.
EmptyDict == <<>>

\* the dict d, the empty one written EmptyDict
Dict(d) == IF DOMAIN d = {} THEN EmptyDict ELSE d

\* dict.update(other)
DictUpdate(d, other) ==
  Dict([k \in (DOMAIN d) \cup (DOMAIN other) |->
          IF k \in DOMAIN other THEN other[k] ELSE d[k]])

\* (mutant) nothing is deleted
PopNothing(d, keys) == d

\* for k in keys: d.pop(k, None)
DictPopAll(d, keys) ==
  Dict([k \in (DOMAIN d) \ keys |-> d[k]])

\* dict.get(k): None when the key is missing
DictGet(d, k) == IF k \in DOMAIN d THEN d[k] ELSE None

\* list.remove(e) inside try/except ValueError: drops the first occurrence,
\* leaves the list alone when e is not in it.
ListRemove(s, e) ==
  IF e \notin Range(s) THEN s
  ELSE LET i == CHOOSE j \in 1..Len(s) :
                  s[j] = e /\ \A k \in 1..(j - 1) : s[k] # e
       IN  SubSeq(s, 1, i - 1) \o SubSeq(s, i + 1, Len(s))

\* the loop of remove_router over router._curr_external_addresses
RECURSIVE ListRemoveEach(_, _)
ListRemoveEach(s, es) ==
  IF es = <<>> THEN s
  ELSE ListRemoveEach(ListRemove(s, Head(es)), Tail(es))

\* number of occurrences of e in s
Count(s, e) == Cardinality({i \in 1..Len(s) : s[i] = e})

\* ------------------------------------------------- transport registry
\* get_client_type(address): the client class registered for the scheme of
\* the address.  "A", "B", "C" stand for scheme-less host:port addresses,
\* "L", "D" for dummy:// addresses.  An absent address has no scheme to
\* look at and the call raises.
get_client_type(address) ==
  CASE address \in {"A", "B", "C"} -> "SocketClient"
    [] address \in {"L", "D"}      -> "DummyClient"
    [] OTHER                       -> "TypeError"

\* ---------------------------------------------------------- Router
\* Router.__init__.  The object keeps the list and the dict it is given
\* (lines 56, 62, 75): the model gives every router a list and dicts of its
\* own, which no caller and no other router holds.
RouterNew(external_addresses, local_address, mapping, comm_config) ==
  [curr_external_addresses |-> external_addresses,
   local_mapping |-> Dict([addr \in Range(external_addresses) |->
                              local_address]),
   mapping       |-> mapping,
   comm_config   |-> comm_config]

\* Router.set_mapping (routing part)
RouterSetMapping(r, mapping) == [r EXCEPT !.mapping = mapping]

\* Router.add_router (routing part)
RouterAdd(r, o) ==
  [curr_external_addresses |->
       r.curr_external_addresses \o o.curr_external_addresses,
   local_mapping |-> DictUpdate(r.local_mapping, o.local_mapping),
   mapping       |-> DictUpdate(r.mapping, o.mapping),
   comm_config   |-> DictUpdate(r.comm_config, o.comm_config)]

\* Router.remove_router (routing part)
RouterRemove(r, o) ==
  [curr_external_addresses |->
       ListRemoveEach(r.curr_external_addresses, o.curr_external_addresses),
   local_mapping |-> DictPopAll(r.local_mapping, DOMAIN o.local_mapping),
   mapping       |-> DictPopAll(r.mapping, DOMAIN o.mapping),
   comm_config   |-> r.comm_config]

\* Router.external_address, and local_address of _create_client
external_address(r) ==
  IF r.curr_external_addresses # <<>>
    THEN r.curr_external_addresses[1] ELSE None

\* (mutant) the overlay is consulted before the loopback mapping
OverlayFirst(r, ext) ==
  IF ext \in DOMAIN r.mapping
    THEN r.mapping[ext]
    ELSE DictGet(r.local_mapping, ext)

\* Router.get_internal_address
get_internal_address(r, ext) ==
  IF ext \in DOMAIN r.local_mapping
    THEN r.local_mapping[ext]
    ELSE DictGet(r.mapping, ext)

\* Router._get_client_type_to_addresses: the dict is built by three
\* assignments in order, a later one overwriting an earlier one under the
\* same client type.  A get_client_type that raises makes the whole
\* computation raise: the dict then carries the key "TypeError" (see Raised).
TypeToAddr1(ext) == [t \in {get_client_type(ext)} |-> ext]

TypeToAddr2(r, ext, d) ==
  IF ext \in Range(r.curr_external_addresses)
    THEN LET addr == DictGet(r.local_mapping, ext)
         IN  DictUpdate(d, [t \in {get_client_type(addr)} |-> addr])
    ELSE d

TypeToAddr3(r, ext, d) ==
  IF ext \in DOMAIN r.mapping
    THEN LET addr == DictGet(r.mapping, ext)
         IN  DictUpdate(d, [t \in {get_client_type(addr)} |-> addr])
    ELSE d

get_client_type_to_addresses(r, ext) ==
  TypeToAddr3(r, ext, TypeToAddr2(r, ext, TypeToAddr1(ext)))

\* get_client_type raised while the dict was being built
Raised(d) == "TypeError" \in DOMAIN d

\* ------------------------------------------------------------- state
RouterIds == {1, 2}
\* Router._instance: the router that serves the client calls
Served == 1

VARIABLES
  routers,   \* RouterIds -> Router object
  cache,     \* RouterIds -> (thread -> dict): _cache_local of each router
  clients,   \* sequence of the Client objects connected so far
  calls,     \* the frames of the get_client(_via_type) calls in progress
  ret,       \* history: outcome of the call that completed in the last step
  changed,   \* history: addresses whose overlay target the last mutation,
             \* a set_mapping, changed from one target to another
  looked,    \* history: a cached lookup began since the last mutation
  trip       \* history: the add_router of the last step, or the add_router
             \* and the remove_router of the last two steps

vars == <<routers, cache, clients, calls, ret, changed, looked, trip>>

\* The frame of a call: its arguments, its position and its locals.
\* History fields:
\*   fresh - no routing mutation ran since the call began
\*   seen  - the clients that cached calls with the same thread and
\*           arguments had returned when the call began, since the last
\*           routing mutation
\*   first - the call began the first cached lookup since the last
\*           routing mutation (or since construction)
NoCall ==
  [pc |-> "idle", ctx |-> None, fn |-> None, external_address |-> None,
   from_who |-> None, want |-> None, cached |-> FALSE,
   cached_client |-> 0, address |-> None, client_type |-> None,
   fresh |-> FALSE, seen |-> {}, first |-> FALSE]

NoRet == [call |-> NoCall, result |-> None, client |-> 0, hit |-> FALSE]

\* History of a merge and its unmerge: the router i as it was before
\* add_router(arg), while the very next step may still be
\* remove_router(arg) ("merged") and after that step ("unmerged").
NoTrip == [phase |-> "none", i |-> 0, before |-> None, arg |-> None]

\* history of a client: the call it was connected for
Maker(c) ==
  [ctx |-> c.ctx, fn |-> c.fn, external_address |-> c.external_address,
   from_who |-> c.from_who, want |-> c.want]

NoMaker == Maker(NoCall)

EmptyCaches == [x \in Contexts |-> EmptyDict]

\* (mutant) get_client_via_type looks in the slot of get_client
CacheKeyNoType(c) == <<c.external_address, c.from_who, None>>

\* the key of the cache slot of a call: line 118 / 182
CacheKey(c) ==
  IF c.fn = "get_client"
    THEN <<c.external_address, c.from_who, None>>
    ELSE <<c.external_address, c.from_who, c.want>>

\* the thread x is inside the synchronous part of a cached lookup: no other
\* coroutine of the same thread runs meanwhile
Busy(x) ==
  \E s \in 1..Len(calls) :
     calls[s].ctx = x /\ calls[s].pc \in {"read", "del"}

\* Some thread is inside a cached lookup.  The steps of a call touch only
\* the cache of their own thread and read the routing table, so steps of
\* calls of different threads commute; the model runs one lookup at a time
\* and interleaves it only with what it does not commute with: the routing
\* mutations and the closing of clients, both from other threads.
InSync == \E x \in Contexts : Busy(x)

\* (mutant) one cache attribute shared by all threads
CacheOfAnyThread(x) ==
  Dict([k \in UNION {DOMAIN cache[Served][y] : y \in Contexts} |->
          IF k \in DOMAIN cache[Served][x]
            THEN cache[Served][x][k]
            ELSE LET y == CHOOSE z \in Contexts : k \in DOMAIN cache[Served][z]
                 IN  cache[Served][y][k]])

\* Router._cache of the served router, seen from thread x (lines 66-72)
CacheOf(x) == cache[Served][x]

\* (mutant) the closed flag is not looked at
NeverClosed(h) == FALSE

\* cached_client.closed, line 120 / 184
IsClosed(h) == clients[h].closed

\* (mutant) the cached argument is not looked at
CachedAlways(c) == TRUE

\* the cached argument of the call, tested at lines 118 and 135 of
\* get_client and 182 and 200 of get_client_via_type
UseCache(c) == c.cached

\* (mutant) the new client is not put in the cache
StoreNothing(c, h) == cache

\* (mutant) the client is stored only if the slot is empty: the first
\* store wins
StoreIfAbsent(c, h) ==
  IF (IF c.fn = "get_client"
        THEN <<c.external_address, c.from_who, None>>
        ELSE <<c.external_address, c.from_who, c.want>>)
       \in DOMAIN cache[Served][c.ctx]
    THEN cache
    ELSE [cache EXCEPT ![Served][c.ctx] =
            [k \in (DOMAIN @) \cup
                   {IF c.fn = "get_client"
                      THEN <<c.external_address, c.from_who, None>>
                      ELSE <<c.external_address, c.from_who, c.want>>} |->
               IF k \in DOMAIN @ THEN @[k] ELSE h]]

\* self._cache[key] = client, line 136 / 201
Store(c, h) ==
  [cache EXCEPT ![Served][c.ctx] = DictUpdate(@, [k \in {CacheKey(c)} |-> h])]

\* client h sits in a cache of the served router
Held(h) == \E x \in Contexts : \E k \in DOMAIN CacheOf(x) : CacheOf(x)[k] = h

\* calls without frame s
Without(s) == SubSeq(calls, 1, s - 1) \o SubSeq(calls, s + 1, Len(calls))

\* the call with frame c completes, leaving the frames rest: it returns a
\* client or raises
Finish(c, rest, result, client, hit) ==
  /\ calls' = rest
  /\ ret' = [call |-> c, result |-> result, client |-> client, hit |-> hit]

\* lines 129-133 of get_client: the address and the client type
ResolveDefault(r, ext) ==
  LET internal == get_internal_address(r, ext)
      address  == IF internal = None THEN ext ELSE internal
  IN  [address |-> address, client_type |-> get_client_type(address),
       error |-> IF get_client_type(address) = "TypeError"
                   THEN "TypeError" ELSE "ok"]

\* lines 193-198 of get_client_via_type
ResolveViaType(r, ext, client_type) ==
  LET d == get_client_type_to_addresses(r, ext)
  IN  IF Raised(d)
        THEN [address |-> None, client_type |-> client_type,
              error |-> "TypeError"]
      ELSE IF client_type \notin DOMAIN d
        THEN [address |-> None, client_type |-> client_type,
              error |-> "ValueError"]
      ELSE [address |-> d[client_type], client_type |-> client_type,
            error |-> "ok"]

\* what a call with frame c resolves against router r
Resolution(r, c) ==
  IF c.fn = "get_client"
    THEN ResolveDefault(r, c.external_address)
    ELSE ResolveViaType(r, c.external_address, c.want)

\* The cache gave nothing: the call with frame c resolves its address and,
\* in _create_client, goes to sleep in client_type.connect (line 151), or
\* raises.  before and after are the frames around c.
Resolve(c, before, after) ==
  LET res == Resolution(routers[Served], c)
  IN  IF res.error # "ok"
        THEN Finish(c, before \o after, res.error, 0, FALSE)
        ELSE /\ calls' = before \o
                         <<[c EXCEPT !.pc = "connect",
                                     !.address = res.address,
                                     !.client_type = res.client_type]>>
                         \o after
             /\ ret' = NoRet

\* ------------------------------------------------------------ actions
\* get_client / get_client_via_type up to the first point where another
\* thread matters: the membership test of line 118 / 182 and, when it
\* fails, the resolution that follows it without a suspension point
Begin(x, fn, ext, from_who, want, cached) ==
  LET c0 == [NoCall EXCEPT !.ctx = x, !.fn = fn, !.external_address = ext,
                           !.from_who = from_who, !.want = want,
                           !.cached = cached, !.fresh = TRUE,
                           !.first = cached /\ ~looked]
      c  == [c0 EXCEPT !.seen =
               IF cached
                 THEN {h \in 1..Len(clients) :
                         clients[h].got /\ clients[h].maker = Maker(c0)}
                 ELSE {}]
  IN
  /\ Len(calls) < MaxCalls
  /\ ~InSync
  /\ IF UseCache(c) /\ CacheKey(c) \in DOMAIN CacheOf(x)
       THEN /\ calls' = Append(calls, [c EXCEPT !.pc = "read"])
            /\ ret' = NoRet
       ELSE Resolve(c, calls, <<>>)
  /\ looked' = (looked \/ cached)
  /\ trip' = NoTrip
  /\ UNCHANGED <<routers, cache, clients, changed>>

get_client(x, ext, from_who, cached) ==
  Begin(x, "get_client", ext, from_who, None, cached)

get_client_via_type(x, ext, client_type, from_who, cached) ==
  Begin(x, "get_client_via_type", ext, from_who, client_type, cached)

\* lines 119-127 / 183-191: read the entry and look at its closed flag
ReadCached(s) ==
  LET c == calls[s] IN
  /\ s \in 1..Len(calls)
  /\ c.pc = "read"
  /\ IF CacheKey(c) \notin DOMAIN CacheOf(c.ctx)
       THEN /\ Finish(c, Without(s), "KeyError", 0, FALSE)
            /\ UNCHANGED clients
       ELSE LET h == CacheOf(c.ctx)[CacheKey(c)] IN
            IF IsClosed(h)
              THEN /\ calls' = [calls EXCEPT ![s].pc = "del",
                                             ![s].cached_client = h]
                   /\ ret' = NoRet
                   /\ UNCHANGED clients
              ELSE /\ Finish(c, Without(s), "ok", h, TRUE)
                   /\ clients' = [clients EXCEPT ![h].got = TRUE]
  /\ trip' = NoTrip
  /\ UNCHANGED <<routers, cache, changed, looked>>

\* line 122 / 186: del self._cache[key], and the resolution that follows
DelCached(s) ==
  LET c == calls[s] IN
  /\ s \in 1..Len(calls)
  /\ c.pc = "del"
  /\ IF CacheKey(c) \notin DOMAIN CacheOf(c.ctx)
       THEN /\ Finish(c, Without(s), "KeyError", 0, FALSE)
            /\ UNCHANGED cache
       ELSE /\ cache' = [cache EXCEPT ![Served][c.ctx] =
                           DictPopAll(@, {CacheKey(c)})]
            /\ Resolve(c, SubSeq(calls, 1, s - 1),
                       SubSeq(calls, s + 1, Len(calls)))
  /\ trip' = NoTrip
  /\ UNCHANGED <<routers, clients, changed, looked>>

\* the awaited client_type.connect completes (line 151), then lines
\* 135-140 / 200-205: store and return
Connect(s, ok) ==
  LET c == calls[s]
      h == Len(clients) + 1
  IN
  /\ s \in 1..Len(calls)
  /\ c.pc = "connect"
  /\ ~InSync
  /\ IF ok
       THEN /\ Len(clients) < MaxClients
            /\ clients' = Append(clients,
                 [address |-> c.address, client_type |-> c.client_type,
                  closed |-> FALSE, maker |-> Maker(c), got |-> c.cached])
            /\ cache' = IF UseCache(c) THEN Store(c, h) ELSE cache
            /\ Finish(c, Without(s), "ok", h, FALSE)
       ELSE /\ Finish(c, Without(s), "ConnectError", 0, FALSE)
            /\ UNCHANGED <<clients, cache>>
  /\ trip' = NoTrip
  /\ UNCHANGED <<routers, changed, looked>>

\* the transport closes a client (Client.closed becomes True); a client that
\* no cache holds is out of the router's reach and its closing changes
\* nothing the router does
Close(h) ==
  /\ h \in 1..Len(clients)
  /\ ~clients[h].closed
  /\ Held(h)
  /\ clients' = [clients EXCEPT ![h].closed = TRUE]
  /\ ret' = NoRet
  /\ trip' = NoTrip
  /\ UNCHANGED <<routers, cache, calls, changed, looked>>

\* Router.get_internal_address called by thread x on the served router: it
\* returns at once
GetInternalAddress(x, ext) ==
  /\ ~InSync
  /\ ret' = [call   |-> [NoCall EXCEPT !.ctx = x,
                                       !.fn = "get_internal_address",
                                       !.external_address = ext,
                                       !.fresh = TRUE],
             result |-> get_internal_address(routers[Served], ext),
             client |-> 0,
             hit    |-> FALSE]
  /\ trip' = NoTrip
  /\ UNCHANGED <<routers, cache, clients, calls, changed, looked>>

\* the client was in a cache when a routing mutation dropped the caches
Dropped == [NoMaker EXCEPT !.ctx = "dropped"]

\* (mutant) the mutation closes the clients it drops from the caches
MutatedClosing(i) ==
  /\ calls' = IF i = Served
                THEN [s \in 1..Len(calls) |->
                        [calls[s] EXCEPT !.fresh = FALSE, !.seen = {},
                                         !.first = FALSE]]
                ELSE calls
  /\ clients' = IF i = Served
                  THEN [h \in 1..Len(clients) |->
                          [clients[h] EXCEPT
                             !.got = FALSE,
                             !.closed = @ \/ Held(h),
                             !.maker = IF Held(h) THEN
                                         [NoMaker EXCEPT !.ctx = "dropped"]
                                       ELSE NoMaker]]
                  ELSE clients
  /\ looked' = (i # Served /\ looked)
  /\ ret' = NoRet

\* What a routing mutation of router i does to the history: the calls in
\* progress are no longer fresh, and the clients forget the call they were
\* connected for.
Mutated(i) ==
  /\ calls' = IF i = Served
                THEN [s \in 1..Len(calls) |->
                        [calls[s] EXCEPT !.fresh = FALSE, !.seen = {},
                                         !.first = FALSE]]
                ELSE calls
  /\ clients' = IF i = Served
                  THEN [h \in 1..Len(clients) |->
                          [clients[h] EXCEPT
                             !.got = FALSE,
                             !.maker = IF Held(h) THEN Dropped ELSE NoMaker]]
                  ELSE clients
  /\ looked' = (i # Served /\ looked)
  /\ ret' = NoRet

\* self._cache_local = threading.local() (lines 76, 83, 95): every thread
\* finds no cache attribute on the new object and starts from an empty dict
NewCacheLocal(old) == EmptyCaches

\* Router.set_mapping, called in thread y on router i
set_mapping(y, i, mapping) ==
  /\ ~Busy(y)
  /\ routers' = [routers EXCEPT ![i] = RouterSetMapping(@, mapping)]
  /\ cache' = [cache EXCEPT ![i] = NewCacheLocal(@)]
  /\ changed' = IF i # Served THEN changed
                ELSE {a \in (DOMAIN mapping) \cap (DOMAIN routers[i].mapping) :
                        mapping[a] # routers[i].mapping[a]}
  /\ trip' = NoTrip
  /\ Mutated(i)

\* Router.add_router, called in thread y on router i
add_router(y, i, router) ==
  /\ ~Busy(y)
  /\ Len(routers[i].curr_external_addresses)
       + Len(router.curr_external_addresses) <= MaxExt
  /\ routers' = [routers EXCEPT ![i] = RouterAdd(@, router)]
  /\ cache' = [cache EXCEPT ![i] = NewCacheLocal(@)]
  /\ changed' = IF i = Served THEN {} ELSE changed
  /\ trip' = [phase |-> "merged", i |-> i, before |-> routers[i],
              arg |-> router]
  /\ Mutated(i)

\* Router.remove_router, called in thread y on router i
remove_router(y, i, router) ==
  /\ ~Busy(y)
  /\ routers' = [routers EXCEPT ![i] = RouterRemove(@, router)]
  /\ cache' = [cache EXCEPT ![i] = NewCacheLocal(@)]
  /\ changed' = IF i = Served THEN {} ELSE changed
  /\ trip' = IF trip.phase = "merged" /\ trip.i = i /\ trip.arg = router
               THEN [trip EXCEPT !.phase = "unmerged"]
               ELSE NoTrip
  /\ Mutated(i)

\* The loop of remove_router over router._curr_external_addresses when
\* router is self: the list shrinks under the iteration, whose index p goes
\* on from where it stands.
RECURSIVE SelfRemoveEach(_, _)
SelfRemoveEach(s, p) ==
  IF p > Len(s) THEN s
  ELSE SelfRemoveEach(ListRemove(s, s[p]), p + 1)

\* Router.remove_router called in thread y on router i with router i itself
\* as the argument.  The loops of lines 92-94 then iterate over the dict
\* they pop from: the iteration raises RuntimeError (dictionary changed size
\* during iteration) once the first key is popped, and line 95 is not
\* reached.  Which key comes first is the insertion order, which a dict of
\* the model does not keep: any key may be the one.
remove_router_self(y, i) ==
  LET r    == routers[i]
      rest == SelfRemoveEach(r.curr_external_addresses, 1)
      fail == [call   |-> [NoCall EXCEPT !.ctx = y, !.fn = "remove_router"],
               result |-> "RuntimeError", client |-> 0, hit |-> FALSE]
  IN
  /\ ~Busy(y)
  /\ trip' = NoTrip
  /\ IF DOMAIN r.local_mapping # {}
       THEN /\ \E k \in DOMAIN r.local_mapping :
                 routers' = [routers EXCEPT ![i] =
                    [r EXCEPT !.curr_external_addresses = rest,
                              !.local_mapping = DictPopAll(@, {k})]]
            /\ ret' = fail
            /\ UNCHANGED <<cache, clients, calls, changed, looked>>
     ELSE IF DOMAIN r.mapping # {}
       THEN /\ \E k \in DOMAIN r.mapping :
                 routers' = [routers EXCEPT ![i] =
                    [r EXCEPT !.curr_external_addresses = rest,
                              !.mapping = DictPopAll(@, {k})]]
            /\ ret' = fail
            /\ UNCHANGED <<cache, clients, calls, changed, looked>>
     ELSE /\ routers' = [routers EXCEPT ![i].curr_external_addresses = rest]
          /\ cache' = [cache EXCEPT ![i] = NewCacheLocal(@)]
          /\ changed' = IF i = Served THEN {} ELSE changed
          /\ Mutated(i)

\* ------------------------------------------------------ specification
\* Spec: the served router is Router(["A"], "L", {"B": "C"}); thread "X"
\* asks for clients to the remote address "B" while the overlay entry of
\* "B" is replaced, merged and unmerged under it by either thread.

\* overlay mappings handed to set_mapping
Mappings == {EmptyDict} \cup {[a \in {"B"} |-> t] : t \in MapTargets}

\* routers handed to add_router / remove_router of the served router
ArgRouters == {RouterNew(<<>>, None, [a \in {"B"} |-> "D"], EmptyDict)}

Init ==
  /\ routers = [i \in RouterIds |->
                  RouterNew(<<"A">>, "L", [a \in {"B"} |-> "C"], EmptyDict)]
  /\ cache = [i \in RouterIds |-> EmptyCaches]
  /\ clients = <<>>
  /\ calls = <<>>
  /\ ret = NoRet
  /\ changed = {}
  /\ looked = FALSE
  /\ trip = NoTrip

\* the threads that ask for clients
Callers == {"X"}

Next ==
  \/ \E x \in Callers, w \in Tags : get_client(x, "B", w, TRUE)
  \/ \E x \in Callers, w \in Tags :
        get_client_via_type(x, "B", "DummyClient", w, TRUE)
  \/ \E s \in 1..MaxCalls : ReadCached(s)
  \/ \E s \in 1..MaxCalls : DelCached(s)
  \/ \E s \in 1..MaxCalls, ok \in BOOLEAN : Connect(s, ok)
  \/ \E h \in 1..MaxClients : Close(h)
  \/ \E y \in Contexts, m \in Mappings : set_mapping(y, Served, m)
  \/ \E y \in Contexts, o \in ArgRouters : add_router(y, Served, o)
  \/ \E y \in Contexts, o \in ArgRouters : remove_router(y, Served, o)

Spec == Init /\ [][Next]_vars

\* SpecThreads: the same router asked for clients by two threads, while
\* either thread sets the overlay to {"B": "D"}, merges or unmerges.
MappingsThreads == {[a \in {"B"} |-> "D"]}

NextThreads ==
  \/ \E x \in Contexts, w \in Tags : get_client(x, "B", w, TRUE)
  \/ \E x \in Contexts, w \in Tags :
        get_client_via_type(x, "B", "DummyClient", w, TRUE)
  \/ \E s \in 1..MaxCalls : ReadCached(s)
  \/ \E s \in 1..MaxCalls : DelCached(s)
  \/ \E s \in 1..MaxCalls, ok \in BOOLEAN : Connect(s, ok)
  \/ \E h \in 1..MaxClients : Close(h)
  \/ \E y \in Contexts, m \in MappingsThreads : set_mapping(y, Served, m)
  \/ \E y \in Contexts, o \in ArgRouters : add_router(y, Served, o)
  \/ \E y \in Contexts, o \in ArgRouters : remove_router(y, Served, o)

SpecThreads == Init /\ [][NextThreads]_vars

\* SpecResolve: the served router is any Router(external_addresses,
\* local_address, mapping) over the universe; thread "X" resolves addresses
\* and connects clients without the cache while the overlay is replaced.
ExtLists == {<<>>, <<"A">>, <<"B">>}

TableMappings ==
  {EmptyDict} \cup {[a \in {k} |-> t] : k \in ExtAddrs, t \in MapTargets}

\* the routers that Router.__init__ constructs
Constructed ==
  {RouterNew(e, l, m, EmptyDict) :
     e \in ExtLists, l \in LocalAddrs, m \in TableMappings}

InitResolve ==
  /\ routers \in [RouterIds -> Constructed]
  /\ routers[2] = RouterNew(<<"A">>, "L", EmptyDict, EmptyDict)
  /\ cache = [i \in RouterIds |-> EmptyCaches]
  /\ clients = <<>>
  /\ calls = <<>>
  /\ ret = NoRet
  /\ changed = {}
  /\ looked = FALSE
  /\ trip = NoTrip

NextResolve ==
  \/ \E x \in Callers, ext \in ExtAddrs : GetInternalAddress(x, ext)
  \/ \E x \in Callers, ext \in ExtAddrs, w \in Tags :
        get_client(x, ext, w, FALSE)
  \/ \E s \in 1..MaxCalls, ok \in BOOLEAN : Connect(s, ok)
  \/ \E y \in Callers, m \in TableMappings : set_mapping(y, Served, m)

SpecResolve == InitResolve /\ [][NextResolve]_vars

\* SpecAgree: one thread asks the served router, constructed as in
\* SpecResolve, for clients by default type and by given type, without the
\* cache.
NextAgree ==
  \/ \E x \in Callers, ext \in ExtAddrs, w \in Tags :
        get_client(x, ext, w, FALSE)
  \/ \E x \in Callers, ext \in ExtAddrs, t \in ClientTypes, w \in Tags :
        get_client_via_type(x, ext, t, w, FALSE)
  \/ \E s \in 1..MaxCalls, ok \in BOOLEAN : Connect(s, ok)

SpecAgree == InitResolve /\ [][NextAgree]_vars

\* SpecBypass: one thread asks the served router for clients of "B" with
\* and without the cache, while clients get closed and the overlay mapping
\* is replaced.
NextBypass ==
  \/ \E x \in Callers, w \in Tags, cached \in BOOLEAN :
        get_client(x, "B", w, cached)
  \/ \E x \in Callers, w \in Tags, cached \in BOOLEAN :
        get_client_via_type(x, "B", "DummyClient", w, cached)
  \/ \E s \in 1..MaxCalls : ReadCached(s)
  \/ \E s \in 1..MaxCalls : DelCached(s)
  \/ \E s \in 1..MaxCalls, ok \in BOOLEAN : Connect(s, ok)
  \/ \E h \in 1..MaxClients : Close(h)
  \/ \E y \in Callers, m \in MappingsThreads : set_mapping(y, Served, m)

SpecBypass == Init /\ [][NextBypass]_vars

\* SpecTable: two routers, each constructed by Router.__init__ with lists
\* and dicts of its own, whose routing tables are replaced, merged and
\* unmerged, each router serving as the argument of the other.
\* the routers that Router.__init__ constructs, with one or two own
\* addresses
ConstructedTable ==
  Constructed \cup
    {RouterNew(<<"A", "B">>, l, EmptyDict, EmptyDict) : l \in LocalAddrs}

InitTable ==
  /\ routers \in [RouterIds -> ConstructedTable]
  /\ cache = [i \in RouterIds |-> EmptyCaches]
  /\ clients = <<>>
  /\ calls = <<>>
  /\ ret = NoRet
  /\ changed = {}
  /\ looked = FALSE
  /\ trip = NoTrip

NextTable ==
  \/ \E y \in Callers, i \in RouterIds, m \in TableMappings :
        set_mapping(y, i, m)
  \/ \E y \in Callers, i \in RouterIds :
        \E j \in RouterIds \ {i} : add_router(y, i, routers[j])
  \/ \E y \in Callers, i \in RouterIds :
        \E j \in RouterIds \ {i} : remove_router(y, i, routers[j])

SpecTable == InitTable /\ [][NextTable]_vars

\* ---- the routing table with a router as its own argument too ----
\* add_router and remove_router take any Router, the router itself
\* included.
NextUnmerge ==
  \/ \E y \in Callers, i \in RouterIds, j \in RouterIds :
        add_router(y, i, routers[j])
  \/ \E y \in Callers, i \in RouterIds :
        \E j \in RouterIds \ {i} : remove_router(y, i, routers[j])
  \/ \E y \in Callers, i \in RouterIds : remove_router_self(y, i)

SpecUnmerge == InitTable /\ [][NextUnmerge]_vars

\* ---------------------------------------------------------------------
\* Properties of Spec
\* ---------------------------------------------------------------------
ServedRouter == routers[Served]

\* the call that completed in the last step returned a client
Returned == ret.result = "ok"

\* C1 (as claimed): once set_mapping has changed the overlay entry of a
\* non-own address from an old target to a new one, a cached get_client for
\* that address that began after set_mapping returned gets a client
\* connected to the new target.
C1_MutationInvalidation ==
  (/\ Returned
   /\ ret.call.fn = "get_client"
   /\ ret.call.cached
   /\ ret.call.fresh
   /\ ret.call.external_address \in changed
   /\ ret.call.external_address \notin Range(ServedRouter.curr_external_addresses))
  => clients[ret.client].address
       = ServedRouter.mapping[ret.call.external_address]

\* C2 (as claimed): a cached get_client returns every open client that an
\* earlier cached get_client of the same thread and key returned since the
\* last routing mutation, as a cache hit.
C2_CacheReuseAnyEarlier ==
  (ret.result # None /\ ret.call.fn = "get_client" /\ ret.call.cached)
  => \A h \in ret.call.seen :
        ~clients[h].closed => (ret.client = h /\ ret.hit)

\* C2 (amended): a cached get_client returns, as a cache hit and without a
\* connect, the open client that an earlier cached get_client of the same
\* thread and key returned, provided no routing mutation ran since and no
\* other call of the thread stored a client under the key since.
C2_CacheReuse ==
  (ret.result # None /\ ret.call.fn = "get_client" /\ ret.call.cached)
  => \A h \in ret.call.seen :
        (~clients[h].closed /\ \A h2 \in ret.call.seen : h2 <= h)
        => (ret.client = h /\ ret.hit)

C2_Witness ==
  /\ Returned /\ ret.hit
  /\ ret.call.fn = "get_client"
  /\ ret.client \in ret.call.seen

\* C3: a cached call never returns a client whose closed flag is set; the
\* call that found a closed client in its slot returns another, newly
\* connected client, resolved against the routing table of the moment, and
\* the slot then holds the new client (get_client and get_client_via_type).
C3_ClosedEviction ==
  /\ (Returned /\ ret.call.cached) => ~clients[ret.client].closed
  /\ (Returned /\ ret.call.cached_client # 0) =>
        /\ ret.client # ret.call.cached_client
        /\ ~ret.hit
        /\ CacheKey(ret.call) \in DOMAIN CacheOf(ret.call.ctx)
        /\ CacheOf(ret.call.ctx)[CacheKey(ret.call)] = ret.client
        /\ ret.call.fresh =>
             clients[ret.client].address
               = Resolution(ServedRouter, ret.call).address

C3_Witness ==
  /\ Returned /\ ret.call.cached_client # 0 /\ ret.call.fresh
  /\ clients[ret.call.cached_client].closed
  /\ ret.call.fn = "get_client_via_type"

\* C8 (as claimed): get_client_via_type with a client type that is not among
\* the candidate types of the address raises ValueError and returns no
\* client.
C8_UnsupportedTypeFails ==
  (/\ ret.call.fn = "get_client_via_type"
   /\ ret.call.fresh
   /\ ret.result # None
   /\ LET d == get_client_type_to_addresses(ServedRouter,
                                            ret.call.external_address)
      IN  ~Raised(d) /\ ret.call.want \notin DOMAIN d)
  => (ret.result = "ValueError" /\ ret.client = 0)

\* C9: a call returns only clients connected for a call with its own
\* function, address, tag and client type, so get_client_via_type never
\* returns a client of the get_client slot nor the reverse; and a
\* get_client_via_type that connects, connects to the candidate address of
\* its client type.
C9_TypeSlotIndependent ==
  Returned =>
    /\ clients[ret.client].maker = Maker(ret.call)
    /\ (ret.call.fn = "get_client_via_type" /\ ~ret.hit /\ ret.call.fresh) =>
          LET d == get_client_type_to_addresses(ServedRouter,
                                                ret.call.external_address)
          IN  /\ ret.call.want \in DOMAIN d
              /\ clients[ret.client].address = d[ret.call.want]

C9_Witness ==
  /\ Returned /\ ret.hit
  /\ ret.call.fn = "get_client_via_type"
  /\ <<ret.call.external_address, ret.call.from_who, None>>
        \in DOMAIN CacheOf(ret.call.ctx)
  /\ CacheOf(ret.call.ctx)[<<ret.call.external_address, ret.call.from_who, None>>]
        # ret.client

\* C10 (as claimed): the cached lookup that is the first one to begin after
\* a routing mutation returned is a miss, in whichever thread and for
\* whichever key it is made.
C10_FirstLookupMisses ==
  (ret.result # None /\ ret.call.first) => ~ret.hit

\* ---------------------------------------------------------------------
\* Properties of SpecThreads
\* ---------------------------------------------------------------------
\* the step is a routing mutation of the served router
IsMutation ==
  \E y \in Contexts :
     \/ \E m \in Mappings : set_mapping(y, Served, m)
     \/ \E o \in ArgRouters : add_router(y, Served, o)
     \/ \E o \in ArgRouters : remove_router(y, Served, o)

\* every client in the cache of a thread was connected for a call of that
\* thread, and so was the client a call has just returned
OwnClientsOnly ==
  /\ \A x \in Contexts : \A k \in DOMAIN CacheOf(x) :
        clients[CacheOf(x)[k]].maker.ctx = x
  /\ Returned => clients[ret.client].maker.ctx = ret.call.ctx

\* the cache of thread y changes only by a routing mutation, by the store
\* of a call of y that has connected, or by the eviction of a call of y
OwnCacheOnly(y) ==
  CacheOf(y)' # CacheOf(y) =>
    \/ IsMutation
    \/ ret'.result = "ok" /\ ~ret'.hit /\ ret'.call.ctx = y
    \/ \E s \in 1..Len(calls) : calls[s].ctx = y /\ calls[s].pc = "del"

\* C4: a call returns, and a cache holds, only clients that a call of the
\* same thread connected, whatever the key; and a store or an eviction of a
\* call of one thread leaves the cache of the other thread as it was.
C4_ContextIsolation ==
  [][OwnClientsOnly' /\ \A y \in Contexts : OwnCacheOnly(y)]_vars

\* thread "Y" gets a cache hit while thread "X" holds another client under
\* the very same key
C4_Witness ==
  /\ Returned /\ ret.hit /\ ret.call.ctx = "Y"
  /\ CacheKey(ret.call) \in DOMAIN CacheOf("X")
  /\ CacheOf("X")[CacheKey(ret.call)] # ret.client
  /\ ret.call.fn = "get_client_via_type"

\* ---------------------------------------------------------------------
\* Properties of SpecTable
\* ---------------------------------------------------------------------
\* C5 (as claimed): add_router(O) followed at once by remove_router(O)
\* leaves every address with as many occurrences in the own addresses as
\* before, and the loopback mapping and the overlay mapping with the keys
\* they had before, whatever O holds.
C5_RoundTrip ==
  trip.phase = "unmerged" =>
    LET R  == trip.before
        R2 == routers[trip.i]
    IN  /\ \A a \in ExtAddrs :
             Count(R2.curr_external_addresses, a)
               = Count(R.curr_external_addresses, a)
        /\ DOMAIN R2.local_mapping = DOMAIN R.local_mapping
        /\ DOMAIN R2.mapping = DOMAIN R.mapping

\* C6 (as claimed): every key of the loopback mapping of a router is one of
\* its own addresses.
C6_LoopbackKeysOwn ==
  \A i \in RouterIds :
     DOMAIN routers[i].local_mapping
       \subseteq Range(routers[i].curr_external_addresses)

\* ---------------------------------------------------------------------
\* Properties of SpecResolve
\* ---------------------------------------------------------------------
\* C7: get_internal_address returns the loopback entry of an address that
\* is a loopback key, else its overlay entry, else nothing, and always
\* returns; and an uncached get_client for an address that is a key of
\* neither mapping connects to the address itself.
C7_ResolveInternal ==
  LET r   == ServedRouter
      ext == ret.call.external_address
  IN  /\ ret.call.fn = "get_internal_address" =>
           /\ ret.result \in LocalAddrs \cup MapTargets
           /\ ext \in DOMAIN r.local_mapping =>
                ret.result = r.local_mapping[ext]
           /\ (ext \notin DOMAIN r.local_mapping /\ ext \in DOMAIN r.mapping) =>
                ret.result = r.mapping[ext]
           /\ (ext \notin DOMAIN r.local_mapping /\ ext \notin DOMAIN r.mapping) =>
                ret.result = None
      /\ (/\ ret.call.fn = "get_client" /\ ret.call.fresh /\ ret.result # None
          /\ ext \notin DOMAIN r.local_mapping
          /\ ext \notin DOMAIN r.mapping)
         => /\ ret.result \in {"ok", "ConnectError"}
            /\ ret.call.address = ext
            /\ Returned => clients[ret.client].address = ext

\* an address with a loopback entry and another overlay entry is resolved
C7_Witness ==
  LET r   == ServedRouter
      ext == ret.call.external_address
  IN  /\ ret.call.fn = "get_internal_address"
      /\ ext \in DOMAIN r.local_mapping
      /\ ext \in DOMAIN r.mapping
      /\ r.local_mapping[ext] # r.mapping[ext]
      /\ ret.result = r.local_mapping[ext]

\* ---------------------------------------------------------------------
\* Properties of Spec (continued)
\* ---------------------------------------------------------------------
\* the slot of the call that has just completed
RetKey == CacheKey(ret.call)

RetCache == CacheOf(ret.call.ctx)

\* C11 (as claimed): after a cached call has failed in connect, the cache
\* of its thread holds no entry under the key of the call.
C11_NoEntryAfterFailedConnect ==
  (ret.result = "ConnectError" /\ ret.call.cached)
  => RetKey \notin DOMAIN RetCache

\* the step is a connect that fails
ConnectFails == \E s \in 1..MaxCalls : Connect(s, FALSE)

\* C11 (amended): a connect that fails makes its call fail with the connect
\* error; the call ends there (no retry, no client), leaves every cache as
\* it was, and the closed client it had evicted is not back in the slot.
C11_FailedConnectStoresNothing ==
  [][ConnectFails =>
       /\ ret'.result = "ConnectError"
       /\ ret'.client = 0
       /\ Len(calls') = Len(calls) - 1
       /\ clients' = clients
       /\ cache' = cache
       /\ (ret'.call.cached_client # 0 /\ RetKey' \in DOMAIN RetCache')
            => RetCache'[RetKey'] # ret'.call.cached_client]_vars

\* a call that evicted a closed client fails in connect, and the slot is
\* empty
C11_Witness ==
  /\ ret.result = "ConnectError" /\ ret.call.cached
  /\ ret.call.cached_client # 0
  /\ RetKey \notin DOMAIN RetCache

\* the step evicts a closed entry
IsEviction ==
  \E s \in 1..MaxCalls :
     /\ s <= Len(calls) /\ calls[s].pc = "del"
     /\ DelCached(s)

\* C12: a routing mutation and the eviction of a closed entry leave the
\* closed flag of every client as it was, and after a mutation no cache
\* holds any client.
C12_NeverCloses ==
  [][(IsMutation \/ IsEviction) =>
       /\ Len(clients') = Len(clients)
       /\ \A h \in 1..Len(clients) : clients'[h].closed = clients[h].closed
       /\ IsMutation => \A h \in 1..Len(clients) : ~Held(h)']_vars

\* an open client that a mutation dropped from a cache
C12_Witness ==
  \E h \in 1..Len(clients) :
     /\ clients[h].maker = Dropped
     /\ ~clients[h].closed
     /\ ~Held(h)

\* C13: a cached get_client that missed returns a client connected for it
\* alone, the newest one, and leaves it in its slot, also when another
\* get_client of the thread for the same key connected and stored its own
\* client in the meantime: two clients, and the later store wins.
C13_NoSingleFlight ==
  (Returned /\ ret.call.fn = "get_client" /\ ret.call.cached /\ ~ret.hit)
  => /\ ret.client = Len(clients)
     /\ RetKey \in DOMAIN RetCache
     /\ RetCache[RetKey] = ret.client

\* the second of two overlapping misses returns: the first call's client
\* was stored after the second call had missed
C13_Witness ==
  /\ Returned /\ ret.call.fn = "get_client" /\ ret.call.cached /\ ~ret.hit
  /\ ret.call.cached_client = 0
  /\ \E h \in 1..Len(clients) :
        /\ h # ret.client
        /\ clients[h].maker = Maker(ret.call)
        /\ ~clients[h].closed
        /\ h \notin ret.call.seen
  /\ RetCache[RetKey] = ret.client

\* ---------------------------------------------------------------------
\* Properties of SpecTable (continued)
\* ---------------------------------------------------------------------
\* C14 (as claimed): remove_router never fails, whatever router it is given.
C14_NeverFails ==
  ret.call.fn = "remove_router" => ret.result # "RuntimeError"

\* the positions of the list s that are left when, for every address, as
\* many of its first occurrences are taken out as the list es has of it
KeptPositions(s, es) ==
  {p \in 1..Len(s) :
     Cardinality({q \in 1..p : s[q] = s[p]}) > Count(es, s[p])}

\* the list t is the list s cut down to the positions in keep, in order
IsSubList(t, s, keep) ==
  /\ Len(t) = Cardinality(keep)
  /\ \A n \in 1..Len(t) :
        \E p \in keep :
           /\ Cardinality({q \in keep : q <= p}) = n
           /\ t[n] = s[p]

\* router r2 is router r after remove_router(o) as C14 describes it
Unmerged(r2, r, o) ==
  /\ IsSubList(r2.curr_external_addresses, r.curr_external_addresses,
               KeptPositions(r.curr_external_addresses,
                             o.curr_external_addresses))
  /\ DOMAIN r2.local_mapping = (DOMAIN r.local_mapping) \ (DOMAIN o.local_mapping)
  /\ \A k \in DOMAIN r2.local_mapping : r2.local_mapping[k] = r.local_mapping[k]
  /\ DOMAIN r2.mapping = (DOMAIN r.mapping) \ (DOMAIN o.mapping)
  /\ \A k \in DOMAIN r2.mapping : r2.mapping[k] = r.mapping[k]
  /\ r2.comm_config = r.comm_config

\* What remove_router does with another router object as its argument (the
\* rest of C14): it takes out of the own addresses, for each element of the
\* argument's list, the first occurrence left, skipping the absent ones;
\* deletes the keys of the argument's loopback and overlay mappings whatever
\* they map to; leaves the rest, the comm_config and the other router as
\* they were; and does not raise.
C14_RemoveRouter ==
  [][\A i \in RouterIds : \A j \in RouterIds \ {i} :
        remove_router("X", i, routers[j]) =>
           /\ Unmerged(routers'[i], routers[i], routers[j])
           /\ routers'[j] = routers[j]
           /\ ret'.result # "RuntimeError"]_vars

\* a remove_router with the other router as its argument has just taken out
\* one of two occurrences of an address and deleted a loopback key that the
\* router held with a value of its own before the argument was merged
C14_Witness ==
  /\ trip.phase = "unmerged"
  /\ LET b == trip.before
         o == trip.arg
         r == routers[trip.i]
     IN  /\ \E e \in Range(o.curr_external_addresses) :
               /\ Count(b.curr_external_addresses, e) = 1
               /\ Count(o.curr_external_addresses, e) = 1
               /\ Count(r.curr_external_addresses, e) = 1
         /\ \E k \in DOMAIN b.local_mapping \cap DOMAIN o.local_mapping :
               /\ b.local_mapping[k] # o.local_mapping[k]
               /\ k \notin DOMAIN r.local_mapping

\* C15: a get_client or get_client_via_type call with cached=False goes
\* straight to the resolution without returning or touching an entry of the
\* cache; when its connect succeeds it returns the client just connected,
\* which no cache holds; when it fails the call raises; in every step of
\* the call the caches stay as they are, a closed entry under the call's
\* key included.
C15_UncachedBypass ==
  [][/\ \A w \in Tags :
          (\/ get_client("X", "B", w, FALSE)
           \/ get_client_via_type("X", "B", "DummyClient", w, FALSE))
          => /\ cache' = cache
             /\ clients' = clients
             /\ ret'.result # "ok"
             /\ calls' # calls
                  => /\ Len(calls') = Len(calls) + 1
                     /\ calls'[Len(calls')].pc = "connect"
     /\ \A s \in 1..Len(calls), ok \in BOOLEAN :
          (~calls[s].cached /\ Connect(s, ok))
          => /\ cache' = cache
             /\ ret'.call = calls[s]
             /\ ~ret'.hit
             /\ IF ok
                  THEN /\ ret'.result = "ok"
                       /\ ret'.client = Len(clients) + 1
                       /\ Len(clients') = Len(clients) + 1
                       /\ clients'[ret'.client].address = calls[s].address
                       /\ ~clients'[ret'.client].closed
                       /\ ~Held(ret'.client)
                  ELSE /\ ret'.result = "ConnectError"
                       /\ clients' = clients]_vars

\* an uncached call has just returned a new client while the cache of its
\* thread holds a closed client under the call's key, which stays there
C15_Witness ==
  /\ Returned
  /\ ~ret.call.cached
  /\ ret.call.fn = "get_client_via_type"
  /\ RetKey \in DOMAIN RetCache
  /\ IsClosed(RetCache[RetKey])
  /\ RetCache[RetKey] # ret.client

\* C16 (as claimed): when get_client for an external address resolves an
\* address and a client type, a get_client_via_type call (cache miss) for
\* the same external address and that client type, resolving against the
\* same routing table, connects to the same address.
C16_SameAddress ==
  [][\A ext \in ExtAddrs, t \in ClientTypes, w \in Tags :
        LET g == ResolveDefault(routers[Served], ext)
        IN  (/\ get_client_via_type("X", ext, t, w, FALSE)
             /\ g.error = "ok"
             /\ g.client_type = t)
            => /\ Len(calls') = Len(calls) + 1
               /\ calls'[Len(calls')].pc = "connect"
               /\ calls'[Len(calls')].address = g.address]_vars

\* C17 (as claimed): no get_client or get_client_via_type call ends with a
\* KeyError from the cache, whatever routing mutation another thread runs
\* between the membership test, the read of the entry and its deletion.
C17_NoKeyError == ret.result # "KeyError"

\* C18 (as claimed): every own address of a router is a key of its loopback
\* mapping, in every state reached from construction by set_mapping,
\* add_router and remove_router.
C18_OwnAddressesHaveLoopback ==
  \A i \in RouterIds :
     Range(routers[i].curr_external_addresses)
       \subseteq DOMAIN routers[i].local_mapping

\* C19 (as claimed): add_router(O) followed at once by remove_router(O)
\* leaves a router that had own addresses with the primary own address
\* (Router.external_address) it had before, whatever O holds.
C19_PrimaryUnchanged ==
  (trip.phase = "unmerged" /\ trip.before.curr_external_addresses # <<>>)
    => external_address(routers[trip.i]) = external_address(trip.before)

\* C20 (as claimed): for a router with an own address whose loopback target
\* is absent (Router([a], None, ...)) and which has an overlay entry,
\* get_internal_address returns the overlay target, and an uncached
\* get_client resolving against that table connects to the overlay target.
C20_OverlayWithoutLoopback ==
  LET r   == ServedRouter
      ext == ret.call.external_address
  IN  (/\ ext \in Range(r.curr_external_addresses)
       /\ DictGet(r.local_mapping, ext) = None
       /\ ext \in DOMAIN r.mapping)
      => /\ ret.call.fn = "get_internal_address" => ret.result = r.mapping[ext]
         /\ (ret.call.fn = "get_client" /\ ret.call.fresh)
              => /\ ret.result \in {"ok", "ConnectError"}
                 /\ ret.call.address = r.mapping[ext]

====
